---- MODULE Spec2Model ----
(***************************************************************************)
(* Model of python/src/Signal.py and python/src/ValueType.py.              *)
(*                                                                         *)
(* Python values are records [kind, v]: kind is the value's class, v its   *)
(* identity within the class.  Two type objects are equal only when they   *)
(* are the same class (bool is not int), and a str is never equal to a     *)
(* type object, which record equality reproduces.                          *)
(*                                                                         *)
(* The operations of class Signal are modelled as the method bodies of     *)
(* lines 2-38 define them.  Loading the file Signal.py as a whole (lines   *)
(* 40-44) is the separate step LoadSignalModule.                           *)
(***************************************************************************)
EXTENDS Integers, Sequences, FiniteSets, TLC

VARIABLES
    sig,        \* <<>> while no Signal object is live, else <<its fields>>
    ctor_args,  \* history: arguments of the latest constructor call
    last_set,   \* history: <<>> or <<argument of the latest set_size>>
    call,       \* the latest call: [op, args]
    ret,        \* <<>> or <<value the latest call returned>>
    raised,     \* exception the latest call raised, "None" when it returned
    members,    \* the members of enum ValueType, in declaration order
    load,       \* outcome of loading Signal.py
    stdout      \* lines printed while loading Signal.py

vars == <<sig, ctor_args, last_set, call, ret, raised, members, load, stdout>>

---------------------------------------------------------------------------
\* Bounds of the explored inputs.
MaxSize == 3
MaxDims == 1

---------------------------------------------------------------------------
\* Python values.
TypeObj(t) == [kind |-> "type", v |-> t]
Str(s) == [kind |-> "str", v |-> s]
IntObj(s) == [kind |-> "int", v |-> s]
PyNone == [kind |-> "NoneType", v |-> "None"]

float == TypeObj("float")
int == TypeObj("int")
str == TypeObj("str")
bool == TypeObj("bool")
datetime_date == TypeObj("datetime.date")
datetime_datetime == TypeObj("datetime.datetime")
complex == TypeObj("complex")

\* Inputs explored.
Names == {"lat", "lon"}
Descriptions == {"test", ""}
Quantities == {"test", "distance"}
Units == {"m", "deg"}
Dimensions == 0..MaxDims
Sizes == 0..MaxSize
SignalValueTypes ==
    {float, int, str, bool, datetime_date, complex, PyNone, Str("float")}
GetInputs ==
    {Str("float"), Str("integer"), Str("string"), Str("boolean"),
     Str("datetime"), Str("int"), Str("FLOAT"), Str(""),
     float, int, str, bool, datetime_date, datetime_datetime, complex,
     PyNone, IntObj("1")}

---------------------------------------------------------------------------
\* ValueType.py

\* isinstance(value, str)
IsInstanceStr(value) == value.kind = "str"

\* The tuple (int, float, bool, str, datetime.date) of line 31.
PrimitiveKinds == {int, float, bool, str, datetime_date}

\* class ValueType(Enum): a broken table registering BOOLEAN under int.
ValueTypeEnum_BoolAsInt ==
    << [member |-> "FLOAT",    name |-> Str("float"),    value_type |-> float],
       [member |-> "INTEGER",  name |-> Str("integer"),  value_type |-> int],
       [member |-> "STRING",   name |-> Str("string"),   value_type |-> str],
       [member |-> "BOOLEAN",  name |-> Str("boolean"),  value_type |-> int],
       [member |-> "DATETIME", name |-> Str("datetime"), value_type |-> datetime_date] >>

\* class ValueType(Enum): the five members, each a ValueTypeItem(name, type).
ValueTypeEnum ==
    << [member |-> "FLOAT",    name |-> Str("float"),    value_type |-> float],
       [member |-> "INTEGER",  name |-> Str("integer"),  value_type |-> int],
       [member |-> "STRING",   name |-> Str("string"),   value_type |-> str],
       [member |-> "BOOLEAN",  name |-> Str("boolean"),  value_type |-> bool],
       [member |-> "DATETIME", name |-> Str("datetime"), value_type |-> datetime_date] >>

\* issubclass(a, b) for the type objects explored: bool derives from int,
\* datetime.datetime from datetime.date.
IsSubclass(a, b) ==
    \/ a = b
    \/ a = bool /\ b = int
    \/ a = datetime_datetime /\ b = datetime_date

\* A match by subclass instead of by equality of the type objects.
ItemMatches_Subclass(item, value) ==
    \/ IsInstanceStr(value) /\ item.name = value
    \/ value \in PrimitiveKinds /\ IsSubclass(value, item.value_type)

\* The two conditions of the loop body of get (lines 28 and 31).
ItemMatches(item, value) ==
    \/ IsInstanceStr(value) /\ item.name = value
    \/ value \in PrimitiveKinds /\ item.value_type = value

\* for item in ValueType: ... return item; after the loop, return None.
RECURSIVE ScanFrom(_, _, _)
ScanFrom(ms, i, value) ==
    IF i > Len(ms) THEN [raised |-> "None", result |-> "None"]
    ELSE IF ItemMatches(ms[i], value)
         THEN [raised |-> "None", result |-> ms[i].member]
         ELSE ScanFrom(ms, i + 1, value)

\* A lookup that falls back to STRING when nothing matches.
ValueTypeGet_Default(ms, value) ==
    LET r == ScanFrom(ms, 1, value)
    IN  IF r.result = "None" THEN [raised |-> "None", result |-> "STRING"] ELSE r

\* ValueType.get(value)
ValueTypeGet(ms, value) == ScanFrom(ms, 1, value)

\* The members visited in the order p instead of declaration order.
Reordered(ms, p) == [i \in 1..Len(ms) |-> ms[p[i]]]

Orders(n) == {p \in [1..n -> 1..n] : \A i, j \in 1..n : p[i] = p[j] => i = j}

Get(value) ==
    /\ LET r == ValueTypeGet(members, value)
       IN  /\ raised' = r.raised
           /\ ret' = IF r.raised = "None" THEN <<r.result>> ELSE <<>>
    /\ call' = [op |-> "ValueType.get", args |-> <<value>>]
    /\ UNCHANGED <<sig, ctor_args, last_set, members, load, stdout>>

---------------------------------------------------------------------------
\* Signal.py

\* Modules Signal.py imports: the file has no import statement.
SignalImports == {}

\* Function definitions of Signal.py that have no body (add_value, line 40).
DefsWithoutBody == {"add_value"}

\* The if-chain with int left out of the first tuple.
DerivedSize_FloatOnly(value_type) ==
    IF value_type = float THEN [raised |-> "None", size |-> 8]
    ELSE IF "datetime" \notin SignalImports THEN [raised |-> "NameError", size |-> 0]
    ELSE IF value_type = datetime_date THEN [raised |-> "None", size |-> 30]
    ELSE IF value_type = bool THEN [raised |-> "None", size |-> 1]
    ELSE [raised |-> "None", size |-> 0]

\* The if-chain of __init__ (lines 10-17).  The first test names only
\* builtins; the elif of line 12 evaluates the global name datetime, which
\* raises NameError when Signal.py has not imported it.
DerivedSize(value_type) ==
    IF value_type \in {float, int} THEN [raised |-> "None", size |-> 8]
    ELSE IF "datetime" \notin SignalImports THEN [raised |-> "NameError", size |-> 0]
    ELSE IF value_type = datetime_date THEN [raised |-> "None", size |-> 30]
    ELSE IF value_type = bool THEN [raised |-> "None", size |-> 1]
    ELSE [raised |-> "None", size |-> 0]

\* Signal(name, description, quantity, unit, value_type, n_dimensions).
\* An exception leaves the caller without a reference to the object.
Construct(name, description, quantity, unit, value_type, n_dimensions) ==
    /\ Len(sig) = 0
    /\ LET d == DerivedSize(value_type)
       IN  /\ raised' = d.raised
           /\ sig' = IF d.raised = "None"
                     THEN << [name |-> name, description |-> description,
                              quantity |-> quantity, unit |-> unit,
                              value_type |-> value_type,
                              n_dimensions |-> n_dimensions,
                              size |-> d.size] >>
                     ELSE <<>>
    /\ ctor_args' = <<name, description, quantity, unit, value_type, n_dimensions>>
    /\ last_set' = <<>>
    /\ call' = [op |-> "__init__",
                args |-> <<name, description, quantity, unit, value_type, n_dimensions>>]
    /\ ret' = <<>>
    /\ UNCHANGED <<members, load, stdout>>

\* s.get_name(): return self._name
get_name ==
    /\ Len(sig) = 1
    /\ call' = [op |-> "get_name", args |-> <<>>]
    /\ ret' = <<sig[1].name>>
    /\ raised' = "None"
    /\ UNCHANGED <<sig, ctor_args, last_set, members, load, stdout>>

\* s.get_quantity(): return self._quantity
get_quantity ==
    /\ Len(sig) = 1
    /\ call' = [op |-> "get_quantity", args |-> <<>>]
    /\ ret' = <<sig[1].quantity>>
    /\ raised' = "None"
    /\ UNCHANGED <<sig, ctor_args, last_set, members, load, stdout>>

\* s.get_unit(): return self._unit
get_unit ==
    /\ Len(sig) = 1
    /\ call' = [op |-> "get_unit", args |-> <<>>]
    /\ ret' = <<sig[1].unit>>
    /\ raised' = "None"
    /\ UNCHANGED <<sig, ctor_args, last_set, members, load, stdout>>

\* s.get_value_type(): return self._value_type
get_value_type ==
    /\ Len(sig) = 1
    /\ call' = [op |-> "get_value_type", args |-> <<>>]
    /\ ret' = <<sig[1].value_type>>
    /\ raised' = "None"
    /\ UNCHANGED <<sig, ctor_args, last_set, members, load, stdout>>

\* s.get_n_dimensions(): return self._n_dimensions
get_n_dimensions ==
    /\ Len(sig) = 1
    /\ call' = [op |-> "get_n_dimensions", args |-> <<>>]
    /\ ret' = <<sig[1].n_dimensions>>
    /\ raised' = "None"
    /\ UNCHANGED <<sig, ctor_args, last_set, members, load, stdout>>

\* s.get_size(): return self._size
get_size ==
    /\ Len(sig) = 1
    /\ call' = [op |-> "get_size", args |-> <<>>]
    /\ ret' = <<sig[1].size>>
    /\ raised' = "None"
    /\ UNCHANGED <<sig, ctor_args, last_set, members, load, stdout>>

\* s.get_description(): class Signal defines no such method, so the
\* attribute lookup raises AttributeError.
get_description ==
    /\ Len(sig) = 1
    /\ call' = [op |-> "get_description", args |-> <<>>]
    /\ ret' = <<>>
    /\ raised' = "AttributeError"
    /\ UNCHANGED <<sig, ctor_args, last_set, members, load, stdout>>

\* A setter that does not store its argument.
set_size_NoStore(size) ==
    /\ Len(sig) = 1
    /\ last_set' = <<size>>
    /\ call' = [op |-> "set_size", args |-> <<size>>]
    /\ ret' = <<>>
    /\ raised' = "None"
    /\ UNCHANGED <<sig, ctor_args, members, load, stdout>>

\* A setter that also overwrites _n_dimensions.
set_size_Clobber(size) ==
    /\ Len(sig) = 1
    /\ sig' = << [sig[1] EXCEPT !.size = size, !.n_dimensions = size] >>
    /\ last_set' = <<size>>
    /\ call' = [op |-> "set_size", args |-> <<size>>]
    /\ ret' = <<>>
    /\ raised' = "None"
    /\ UNCHANGED <<ctor_args, members, load, stdout>>

\* s.set_size(size)
set_size(size) ==
    /\ Len(sig) = 1
    /\ sig' = << [sig[1] EXCEPT !.size = size] >>
    /\ last_set' = <<size>>
    /\ call' = [op |-> "set_size", args |-> <<size>>]
    /\ ret' = <<>>
    /\ raised' = "None"
    /\ UNCHANGED <<ctor_args, members, load, stdout>>

\* Loading Signal.py: the file is compiled before any statement runs, and
\* the def of line 40 has no indented block.  Were it compiled, lines 43-44
\* would construct Signal("lat", "test", "test", "m", float, 1) and print
\* its name.
LoadSignalModule ==
    /\ load = "not loaded"
    /\ IF DefsWithoutBody # {}
       THEN /\ load' = "IndentationError"
            /\ stdout' = <<>>
       ELSE LET d == DerivedSize(float)
            IN  IF d.raised = "None"
                THEN /\ load' = "loaded"
                     /\ stdout' = <<"lat">>
                ELSE /\ load' = d.raised
                     /\ stdout' = <<>>
    /\ UNCHANGED <<sig, ctor_args, last_set, call, ret, raised, members>>

---------------------------------------------------------------------------
Init ==
    /\ sig = <<>>
    /\ ctor_args = <<>>
    /\ last_set = <<>>
    /\ call = [op |-> "none", args |-> <<>>]
    /\ ret = <<>>
    /\ raised = "None"
    /\ members = ValueTypeEnum
    /\ load = "not loaded"
    /\ stdout = <<>>

Next ==
    \/ \E name \in Names, description \in Descriptions, quantity \in Quantities,
          unit \in Units, value_type \in SignalValueTypes,
          n_dimensions \in Dimensions :
          Construct(name, description, quantity, unit, value_type, n_dimensions)
    \/ get_name
    \/ get_quantity
    \/ get_unit
    \/ get_value_type
    \/ get_n_dimensions
    \/ get_size
    \/ get_description
    \/ \E size \in Sizes : set_size(size)
    \/ \E value \in GetInputs : Get(value)
    \/ LoadSignalModule

Spec == Init /\ [][Next]_vars

---------------------------------------------------------------------------
\* Properties.

FloatOrInt == {float, int}
NameStrings ==
    {Str("float"), Str("integer"), Str("string"), Str("boolean"), Str("datetime")}
KindRefs == {float, int, str, bool, datetime_date}
ReadAccessors ==
    [get_name |-> "name", get_description |-> "description",
     get_quantity |-> "quantity", get_unit |-> "unit",
     get_value_type |-> "value_type", get_n_dimensions |-> "n_dimensions",
     get_size |-> "size"]

\* C1: a constructor call with value type date returns a Signal of size 30,
\* and one with value type bool returns a Signal of size 1.
C1_DateBoolSize ==
    (call.op = "__init__" /\ call.args[5] \in {datetime_date, bool}) =>
        /\ raised = "None"
        /\ Len(sig) = 1
        /\ sig[1].size = (IF call.args[5] = datetime_date THEN 30 ELSE 1)

\* C2: a constructor call with a value type outside {float, int, date, bool}
\* raises nothing and returns a Signal of size 0.
C2_UnrecognizedSizeZero ==
    (call.op = "__init__" /\ call.args[5] \notin {float, int, datetime_date, bool}) =>
        /\ raised = "None"
        /\ Len(sig) = 1
        /\ sig[1].size = 0

C4_GetRoundTrip ==
    /\ \A i \in 1..Len(members) :
           /\ ValueTypeGet(members, members[i].name).result = members[i].member
           /\ ValueTypeGet(members, members[i].value_type).result = members[i].member
    /\ call.op = "ValueType.get" =>
           /\ \A i \in 1..Len(members) :
                  call.args[1] \in {members[i].name, members[i].value_type} =>
                      ret = <<members[i].member>>
           /\ call.args[1] = bool => ret = <<"BOOLEAN">>

C4_Witness ==
    /\ call.op = "ValueType.get"
    /\ call.args[1] = bool
    /\ ret = <<"BOOLEAN">>

\* C5: get raises nothing, and returns None for every input that is neither
\* one of the five member names nor one of the five primitive-kind references.
C5_GetNoneFound ==
    call.op = "ValueType.get" =>
        /\ raised = "None"
        /\ call.args[1] \notin (NameStrings \cup KindRefs) => ret = <<"None">>

C5_Witness ==
    /\ call.op = "ValueType.get"
    /\ call.args[1] \in {Str("int"), datetime_datetime, IntObj("1")}
    /\ ret = <<"None">>

C8_AllAccessors ==
    (Len(sig) = 1 /\ call.op \in DOMAIN ReadAccessors) =>
        /\ raised = "None"
        /\ ret = <<sig[1][ReadAccessors[call.op]]>>

\* C9: get_name on a constructed Signal returns the name passed to the
\* constructor, every constructor call returns a Signal, and loading
\* Signal.py prints exactly lat.
C9_NameEndToEnd ==
    /\ call.op = "__init__" => (raised = "None" /\ Len(sig) = 1)
    /\ call.op = "get_name" => ret = <<ctor_args[1]>>
    /\ load # "not loaded" => (load = "loaded" /\ stdout = <<"lat">>)

\* C10: the enumeration holds exactly five members with pairwise distinct
\* names and pairwise distinct primitive types, at most one member matches
\* any input, a scan in any order returns what the declaration-order scan
\* returns, and no operation changes the enumeration.
C10_EnumClosed ==
    /\ members = ValueTypeEnum
    /\ Len(members) = 5
    /\ \A i, j \in 1..Len(members) :
           i # j => /\ members[i].member # members[j].member
                    /\ members[i].name # members[j].name
                    /\ members[i].value_type # members[j].value_type
    /\ \A value \in GetInputs :
           Cardinality({i \in 1..Len(members) : ItemMatches(members[i], value)}) <= 1
    /\ call.op = "ValueType.get" =>
           \A p \in Orders(Len(members)) :
               ValueTypeGet(Reordered(members, p), call.args[1]).result = ret[1]

C10_Witness ==
    /\ call.op = "ValueType.get"
    /\ call.args[1] = Str("datetime")
    /\ ret = <<"DATETIME">>
    /\ ValueTypeGet(Reordered(members, [i \in 1..5 |-> 6 - i]), call.args[1]).result
           = "DATETIME"

====
